---- MODULE Spec2Model ----
(***************************************************************************)
(* A model of bot.py, the Kwacha <-> Ruble quoting bot:                    *)
(*   - the fee table and fee_for_kw,                                       *)
(*   - parse_amount, fmt_money and the rate parser of fetch_rate_from_sheet*)
(*   - derive_csv_url,                                                     *)
(*   - the aiogram message handlers and the per-chat FSM state.            *)
(*                                                                         *)
(* Python floats are modelled as exact rationals extended with nan, inf    *)
(* and -inf (records [k, n, d]); text is a sequence of one-character       *)
(* strings.                                                                *)
(***************************************************************************)
EXTENDS Integers, Sequences, FiniteSets, TLC

VARIABLES
    fee_arg,     \* SpecFee: the argument handed to fee_for_kw
    fee_result,  \* SpecFee: what fee_for_kw returned for it
    SHEET_URL,   \* the configured sheet URL (bot.py:20)
    CSV_URL,     \* derive_csv_url(SHEET_URL) (bot.py:86)
    state,       \* the chat's FSM state in MemoryStorage
    last,        \* the last message handled: text, handler, replies, locals
    arrived,     \* SpecConc: the messages delivered so far, in arrival order
    tasks,       \* SpecConc: one record per delivered message (its handler task)
    state0       \* SpecConc: the chat's FSM state before the first message

vars == <<fee_arg, fee_result, SHEET_URL, CSV_URL, state, last, arrived, tasks, state0>>

feeVars == <<fee_arg, fee_result>>
urlVars == <<SHEET_URL, CSV_URL>>
chatVars == <<state, last>>
concVars == <<arrived, tasks, state0>>

(***************************************************************************)
(* Numbers: Python floats as extended rationals.                           *)
(***************************************************************************)
RECURSIVE Gcd(_, _)
Gcd(a, b) == IF b = 0 THEN a ELSE Gcd(b, a % b)

Abs(x) == IF x < 0 THEN -x ELSE x

\* n/d in lowest terms, d > 0
Fin(n, d) ==
    LET g == Gcd(Abs(n), d)
    IN  [k |-> "fin", n |-> n \div g, d |-> d \div g]

IntNum(i) == [k |-> "fin", n |-> i, d |-> 1]
NaN == [k |-> "nan", n |-> 0, d |-> 1]
PosInf == [k |-> "inf", n |-> 1, d |-> 1]
NegInf == [k |-> "inf", n |-> -1, d |-> 1]

Sign(x) == IF x.n > 0 THEN 1 ELSE IF x.n < 0 THEN -1 ELSE 0

\* a < b as Python compares floats: every comparison with nan is false
Lt(a, b) ==
    IF a.k = "nan" \/ b.k = "nan" THEN FALSE
    ELSE IF a.k = "inf" THEN a.n < 0 /\ ~(b.k = "inf" /\ b.n < 0)
    ELSE IF b.k = "inf" THEN b.n > 0
    ELSE a.n * b.d < b.n * a.d

NumEq(a, b) == a.k # "nan" /\ b.k # "nan" /\ a = b

Le(a, b) == Lt(a, b) \/ NumEq(a, b)

Add(a, b) ==
    IF a.k = "nan" \/ b.k = "nan" THEN NaN
    ELSE IF a.k = "inf" THEN (IF b.k = "inf" /\ b.n # a.n THEN NaN ELSE a)
    ELSE IF b.k = "inf" THEN b
    ELSE Fin(a.n * b.d + b.n * a.d, a.d * b.d)

Mul(a, b) ==
    IF a.k = "nan" \/ b.k = "nan" THEN NaN
    ELSE IF a.k = "inf" \/ b.k = "inf"
         THEN (IF Sign(a) * Sign(b) = 0 THEN NaN
               ELSE IF Sign(a) * Sign(b) > 0 THEN PosInf ELSE NegInf)
    ELSE Fin(a.n * b.n, a.d * b.d)

\* 1.0 / x for a finite nonzero x
Recip(x) == IF x.n > 0 THEN Fin(x.d, x.n) ELSE Fin(-x.d, -x.n)

\* a float's truth value: zero is falsy (nan and inf are truthy)
Truthy(x) == ~(x.k = "fin" /\ x.n = 0)

(***************************************************************************)
(* The fee table (bot.py:30-48).                                           *)
(***************************************************************************)
FEE_BRACKETS == <<
    <<100,   450,   25>>,
    <<500,   1500,  50>>,
    <<1600,  3400,  100>>,
    <<3500,  6400,  150>>,
    <<6500,  10000, 325>>,
    <<10001, 15000, 500>>,
    <<15001, 20000, 700>>,
    <<20001, 40000, 1000>> >>

MIN_K == FEE_BRACKETS[1][1]
MAX_K == FEE_BRACKETS[Len(FEE_BRACKETS)][2]

\* (None, None)
NoFee == [none |-> TRUE, fee |-> 0, lo |-> 0, hi |-> 0]

\* an upper bound taken as exclusive: lo <= amount_k < hi
InBracket_exclusive_hi(amount_k, b) == Le(IntNum(b[1]), amount_k) /\ Lt(amount_k, IntNum(b[2]))

\* lo <= amount_k <= hi
InBracket(amount_k, b) == Le(IntNum(b[1]), amount_k) /\ Le(amount_k, IntNum(b[2]))

RECURSIVE fee_scan(_, _)
fee_scan(amount_k, i) ==
    IF i > Len(FEE_BRACKETS) THEN NoFee
    ELSE IF InBracket(amount_k, FEE_BRACKETS[i])
         THEN [none |-> FALSE, fee |-> FEE_BRACKETS[i][3],
               lo |-> FEE_BRACKETS[i][1], hi |-> FEE_BRACKETS[i][2]]
         ELSE fee_scan(amount_k, i + 1)

\* a loop that starts at the second bracket
fee_for_kw_skip_first(amount_k) == fee_scan(amount_k, 2)

fee_for_kw(amount_k) == fee_scan(amount_k, 1)

(***************************************************************************)
(* Text: a sequence of one-character strings.                              *)
(***************************************************************************)
DigitChars == <<"0", "1", "2", "3", "4", "5", "6", "7", "8", "9">>

IsDigit(c) == \E i \in 1..Len(DigitChars) : DigitChars[i] = c

DigitVal(c) == (CHOOSE i \in 1..Len(DigitChars) : DigitChars[i] = c) - 1

RECURSIVE DigitsToInt(_)
DigitsToInt(ds) ==
    IF ds = <<>> THEN 0
    ELSE 10 * DigitsToInt(SubSeq(ds, 1, Len(ds) - 1)) + DigitVal(ds[Len(ds)])

RECURSIVE Pow10(_)
Pow10(e) == IF e = 0 THEN 1 ELSE 10 * Pow10(e - 1)

\* the length of the run of digits of t that starts at position i
RECURSIVE DigitRun(_, _)
DigitRun(t, i) ==
    IF i <= Len(t) /\ IsDigit(t[i]) THEN 1 + DigitRun(t, i + 1) ELSE 0

\* str.replace(old, new) for a one-character old; new is a text
RECURSIVE Replace(_, _, _)
Replace(t, old, new) ==
    IF t = <<>> THEN <<>>
    ELSE (IF Head(t) = old THEN new ELSE <<Head(t)>>) \o Replace(Tail(t), old, new)

\* pat in t
Contains(t, pat) ==
    \E i \in 1..(Len(t) - Len(pat) + 1) : SubSeq(t, i, i + Len(pat) - 1) = pat

\* str.lower() on the letters the model's texts hold in upper case
LowerChar(c) ==
    CASE c = "H" -> "h" [] c = "T" -> "t" [] c = "M" -> "m" [] c = "L" -> "l" [] OTHER -> c

Lower(t) == [i \in 1..Len(t) |-> LowerChar(t[i])]

IsSpace(c) == c = " " \/ c = "\n"

\* str.strip()
RECURSIVE Strip(_)
Strip(t) ==
    IF t = <<>> THEN t
    ELSE IF IsSpace(Head(t)) THEN Strip(Tail(t))
    ELSE IF IsSpace(t[Len(t)]) THEN Strip(SubSeq(t, 1, Len(t) - 1))
    ELSE t

(***************************************************************************)
(* float(t) on the literals the model's texts can hold: an optional sign,  *)
(* then nan, inf, or digits with an optional fraction; anything else is a  *)
(* ValueError.                                                             *)
(***************************************************************************)
FloatErr(e) == [err |-> e, v |-> NaN]
FloatOk(v) == [err |-> "none", v |-> v]

\* il integer digits, then (if dot) a point and fl fraction digits must be all of body
float_digits(sgn, body, il, dot, fl) ==
    IF il + (IF dot THEN 1 + fl ELSE 0) = Len(body) /\ il + fl > 0
    THEN FloatOk(Fin(sgn * DigitsToInt(SubSeq(body, 1, il) \o SubSeq(body, il + 2, il + 1 + fl)),
                     Pow10(fl)))
    ELSE FloatErr("ValueError")

float_fraction(sgn, body, il, dot) ==
    float_digits(sgn, body, il, dot, IF dot THEN DigitRun(body, il + 2) ELSE 0)

float_point(sgn, body, il) ==
    float_fraction(sgn, body, il, il < Len(body) /\ body[il + 1] = ".")

float_unsigned(sgn, body) ==
    IF body = <<"n", "a", "n">> THEN FloatOk(NaN)
    ELSE IF body = <<"i", "n", "f">> THEN FloatOk(IF sgn > 0 THEN PosInf ELSE NegInf)
    ELSE float_point(sgn, body, DigitRun(body, 1))

float(t) ==
    IF t # <<>> /\ t[1] \in {"+", "-"}
    THEN float_unsigned(IF t[1] = "-" THEN -1 ELSE 1, Tail(t))
    ELSE float_unsigned(1, t)

\* a message: has_text is FALSE for a photo or sticker (m.text is None)
NoText == [has_text |-> FALSE, text |-> <<>>]
Text(t) == [has_text |-> TRUE, text |-> t]

\* parse_amount (bot.py:56-58); None.replace raises AttributeError
parse_amount(m) ==
    IF ~m.has_text THEN FloatErr("AttributeError")
    ELSE float(Replace(Replace(m.text, " ", <<>>), ",", <<".">>))

(***************************************************************************)
(* Formatting: f"{x:.<p>f}" as the sign, whole part and p-digit fraction   *)
(* of x rounded half-even.                                                 *)
(***************************************************************************)
Blank == [k |-> "blank", neg |-> FALSE, whole |-> 0, frac |-> 0, strip |-> FALSE]

\* q hundredths (for p = 2) and a remainder r of |x|'s scaled value over x.d
RoundHalfEven(q, r, d) ==
    IF 2 * r > d \/ (2 * r = d /\ q % 2 = 1) THEN q + 1 ELSE q

FmtDigits(neg, c, unit) ==
    [k |-> "fin", neg |-> neg, whole |-> c \div unit, frac |-> c % unit, strip |-> FALSE]

FmtScaled(x, scaled, unit) ==
    FmtDigits(x.n < 0, RoundHalfEven(scaled \div x.d, scaled % x.d, x.d), unit)

FmtFixed(x, p) ==
    IF x.k = "nan" THEN [k |-> "nan", neg |-> FALSE, whole |-> 0, frac |-> 0, strip |-> FALSE]
    ELSE IF x.k = "inf" THEN [k |-> "inf", neg |-> x.n < 0, whole |-> 0, frac |-> 0, strip |-> FALSE]
    ELSE FmtScaled(x, Abs(x.n) * Pow10(p), Pow10(p))

\* the ".00" of a two-decimal amount is dropped
StripZeros(s) == [s EXCEPT !.strip = (s.k = "fin" /\ s.frac = 0)]

\* fmt_money (bot.py:50-54): two decimals, a trailing ".00" dropped
fmt_money(x) == StripZeros(FmtFixed(x, 2))

\* the displayed amount units.cc, for stating examples
Money(units, cc) ==
    [k |-> "fin", neg |-> FALSE, whole |-> units, frac |-> cc, strip |-> cc = 0]

(***************************************************************************)
(* fetch_rate_from_sheet (bot.py:88-101) on an HTTP outcome: status        *)
(* "error" stands for client.get or raise_for_status raising.              *)
(***************************************************************************)
NoResp == [status |-> "none", body |-> <<>>]
HttpError == [status |-> "error", body |-> <<>>]
Body(t) == [status |-> "ok", body |-> t]

\* where re.search(r'[-+]?\d+(?:[.,]\d+)?', txt) can match at position i
MatchAt(txt, i) ==
    \/ IsDigit(txt[i])
    \/ txt[i] \in {"-", "+"} /\ i + 1 <= Len(txt) /\ IsDigit(txt[i + 1])

\* the match that starts at i: its digits start at s and run for il characters
NumberFrom(txt, i, s, il) ==
    IF s + il < Len(txt) /\ txt[s + il] \in {".", ","} /\ IsDigit(txt[s + il + 1])
    THEN SubSeq(txt, i, s + il + DigitRun(txt, s + il + 1))
    ELSE SubSeq(txt, i, s + il - 1)

NumberAt(txt, i, s) == NumberFrom(txt, i, s, DigitRun(txt, s))

\* the least position where the pattern matches
FirstMatch(txt) ==
    CHOOSE j \in 1..Len(txt) : MatchAt(txt, j) /\ \A h \in 1..(j - 1) : ~MatchAt(txt, h)

MatchedText(txt, i) == NumberAt(txt, i, IF IsDigit(txt[i]) THEN i ELSE i + 1)

\* m.group(0) of the leftmost match, <<>> if there is none
FirstNumber(txt) ==
    IF \A i \in 1..Len(txt) : ~MatchAt(txt, i) THEN <<>>
    ELSE MatchedText(txt, FirstMatch(txt))

RateErr(why) == [ok |-> FALSE, why |-> why, rate |-> NaN]

\* the rate in the token m.group(0)
RateOf(tok) ==
    IF tok = <<>> THEN RateErr("no_number")
    ELSE [ok |-> TRUE, why |-> "", rate |-> float(Replace(tok, ",", <<".">>)).v]

\* the body, stripped
ParseRate(txt) ==
    IF Contains(Lower(txt), <<"<", "h", "t", "m", "l">>) THEN RateErr("html")
    ELSE RateOf(FirstNumber(txt))

fetch_rate_from_sheet(resp) ==
    IF resp.status # "ok" THEN RateErr("http") ELSE ParseRate(Strip(resp.body))

(***************************************************************************)
(* URLs, as urllib.parse.urlparse splits them: scheme, host, the path's    *)
(* segments, the query's key=value pairs in order, the fragment.           *)
(***************************************************************************)
Url(scheme, host, path, query, fragment) ==
    [scheme |-> scheme, host |-> host, path |-> path, query |-> query, fragment |-> fragment]

NoUrl == Url("", "", <<>>, <<>>, "")

\* "output=csv" in url: the model's URLs can hold it in the query or as the fragment
HasOutputCsv(url) ==
    \/ \E i \in 1..Len(url.query) : url.query[i] = <<"output", "csv">>
    \/ url.fragment = "output=csv"

\* unquote_plus and quote_plus on the values the model's URLs hold
Unquote(v) == CASE v = "1%2B2" -> "1+2" [] v = "1+2" -> "1 2" [] OTHER -> v
Quote(v) == CASE v = "1+2" -> "1%2B2" [] v = "1 2" -> "1+2" [] OTHER -> v

\* the dict after d[key] = value: a key already there keeps its place
QSet(d, key, value) ==
    IF \E i \in 1..Len(d) : d[i][1] = key
    THEN [i \in 1..Len(d) |-> IF d[i][1] = key THEN <<key, value>> ELSE d[i]]
    ELSE Append(d, <<key, value>>)

\* dict(parse_qsl(query)): the values decoded, a repeated key taking its last value
RECURSIVE QDict(_)
QDict(query) ==
    IF query = <<>> THEN <<>>
    ELSE QSet(QDict(SubSeq(query, 1, Len(query) - 1)),
              query[Len(query)][1], Unquote(query[Len(query)][2]))

\* urlencode(q)
UrlEncode(d) == [i \in 1..Len(d) |-> <<d[i][1], Quote(d[i][2])>>]

\* q.get(key, default)
QGet(q, key, default) ==
    IF \E i \in 1..Len(q) : q[i][1] = key
    THEN q[CHOOSE i \in 1..Len(q) : q[i][1] = key][2]
    ELSE default

\* "/spreadsheets/d/e/" in path
HasPublishedPrefix(path) ==
    \E i \in 1..(Len(path) - 3) :
        path[i] = "spreadsheets" /\ path[i + 1] = "d" /\ path[i + 2] = "e"

\* "/pubhtml" in path, "/pub" in path
HasPubHtml(path) == \E i \in 1..Len(path) : path[i] = "pubhtml"
HasPub(path) == \E i \in 1..Len(path) : path[i] \in {"pub", "pubhtml"}

\* re.search(r"/spreadsheets/d/([a-zA-Z0-9-_]+)", path): where the id segment is, 0 if none
SheetIdAt(path) ==
    LET hits == {i \in 1..(Len(path) - 2) : path[i] = "spreadsheets" /\ path[i + 1] = "d"}
    IN  IF hits = {} THEN 0
        ELSE (CHOOSE i \in hits : \A j \in hits : i <= j) + 2

\* path.replace("/pubhtml", "/pub")
PubHtmlToPub(path) == [i \in 1..Len(path) |-> IF path[i] = "pubhtml" THEN "pub" ELSE path[i]]

\* derive_csv_url (bot.py:64-84), q the parsed query
derive_from(url, path, q) ==
    IF HasPublishedPrefix(path) /\ HasPubHtml(path)
    THEN [url EXCEPT !.path = PubHtmlToPub(path),
                     !.query = UrlEncode(QSet(q, "output", "csv"))]
    ELSE IF HasPublishedPrefix(path) /\ HasPub(path)
    THEN [url EXCEPT !.query = UrlEncode(QSet(q, "output", "csv"))]
    ELSE IF SheetIdAt(path) # 0
    THEN Url("https", "docs.google.com",
             <<"spreadsheets", "d", path[SheetIdAt(path)], "export">>,
             <<<<"format", "csv">>, <<"gid", QGet(q, "gid", "0")>>>>, "")
    ELSE url

\* derive_csv_url (bot.py:61-84)
derive_csv_url(url) ==
    IF HasOutputCsv(url) THEN url ELSE derive_from(url, url.path, QDict(url.query))

(***************************************************************************)
(* The chat: menu labels, commands, the FSM states and the order in which  *)
(* the dispatcher tries the handlers (their registration order).           *)
(***************************************************************************)
\* Form (bot.py:128-130); "None" is the cleared state
FormStates == {"None", "waiting_kw_amount", "waiting_rub_amount"}

\* the emoji of a label is one character
LABEL_RATE == <<"[chart]", " ", "G", "o", "o", "g", "l", "e", " ", "r", "a", "t", "e">>
LABEL_KW == <<"[money]", " ", "R", "e", "c", "e", "i", "v", "e", " ", "K", "w", "a", "c", "h", "a">>
LABEL_RUB == <<"[euro]", " ", "R", "e", "c", "e", "i", "v", "e", " ", "R", "u", "b", "l", "e", "s">>
LABEL_FEES == <<"[info]", " ", "F", "e", "e", "s">>

CMD_START == <<"/", "s", "t", "a", "r", "t">>
CMD_RATE == <<"/", "r", "a", "t", "e">>
CMD_FEES == <<"/", "f", "e", "e", "s">>
CMD_DEBUG_LINK == <<"/", "d", "e", "b", "u", "g", "_", "l", "i", "n", "k">>

\* text.split(maxsplit=1)[0]
FirstToken(t) ==
    IF \E i \in 1..Len(t) : t[i] = " "
    THEN SubSeq(t, 1, (CHOOSE i \in 1..Len(t) : t[i] = " " /\ \A j \in 1..(i - 1) : t[j] # " ") - 1)
    ELSE t

\* the Command(...) filter
IsCommand(m, cmd) == m.has_text /\ FirstToken(m.text) = cmd

\* the F.text == label filter
IsLabel(m, label) == m.has_text /\ m.text = label

\* the first handler, in registration order, whose filter accepts the message
Dispatch(m, st) ==
    IF IsCommand(m, CMD_START) THEN "start_cmd"
    ELSE IF IsLabel(m, LABEL_FEES) THEN "fees"
    ELSE IF IsLabel(m, LABEL_RATE) THEN "google_rate"
    ELSE IF IsLabel(m, LABEL_KW) THEN "choose_kw"
    ELSE IF st = "waiting_kw_amount" THEN "handle_kw_amount"
    ELSE IF IsLabel(m, LABEL_RUB) THEN "choose_rub"
    ELSE IF st = "waiting_rub_amount" THEN "handle_rub_amount"
    ELSE IF IsCommand(m, CMD_RATE) THEN "cmd_rate"
    ELSE IF IsCommand(m, CMD_FEES) THEN "cmd_fees"
    ELSE IF IsCommand(m, CMD_DEBUG_LINK) THEN "cmd_debug_link"
    ELSE "none"

(***************************************************************************)
(* Replies and handler steps.  A handler runs from its start to its first  *)
(* network await (Begin: either the rate fetch or the reply's send), and   *)
(* from the fetch's return to the reply's send (Resume).                   *)
(***************************************************************************)
Reply(kind) ==
    [kind |-> kind, gets |-> Blank, base |-> Blank, fee |-> Blank, lo |-> 0, hi |-> 0,
     total |-> Blank, send |-> Blank, rate |-> Blank, inv |-> Blank, url |-> NoUrl]

NoReply == Reply("none")

QuoteKinds == {"quote_kw", "quote_rub"}
FailureKinds == {"enter_number", "outside_range", "no_bracket", "rate_error"}

\* pc: "fetch" (awaiting the rate), "answer" (awaiting m.answer), "raised", "done"
Step(pc, st, reply, want, fee, looked) ==
    [pc |-> pc, state |-> st, reply |-> reply, want |-> want, fee |-> fee, looked |-> looked]

Answer(st, reply) == Step("answer", st, reply, NaN, NoFee, FALSE)

\* start_cmd (bot.py:137-148)
start_cmd_begin(m, st) == Answer("None", Reply("menu"))

\* fees (bot.py:150-156)
fees_begin(m, st) == Answer("None", Reply("fee_table"))

\* a google_rate that forgets state.clear()
google_rate_begin_no_clear(m, st) == Step("fetch", st, NoReply, NaN, NoFee, FALSE)

\* google_rate (bot.py:158-162): state.clear(), then the fetch
google_rate_begin(m, st) == Step("fetch", "None", NoReply, NaN, NoFee, FALSE)

\* 1.0 / rub_per_zmw if rub_per_zmw else math.inf (bot.py:167, 255)
zmw_per_rub_of(rub_per_zmw) == IF Truthy(rub_per_zmw) THEN Recip(rub_per_zmw) ELSE PosInf

\* google_rate (bot.py:163-177), f the outcome of the fetch
google_rate_after(f, st) ==
    IF ~f.ok THEN Answer(st, Reply("rate_error_retry"))
    ELSE Answer(st, [Reply("rate") EXCEPT !.rate = FmtFixed(f.rate, 4),
                                           !.inv = FmtFixed(zmw_per_rub_of(f.rate), 4)])

google_rate_resume(t, resp, st) == google_rate_after(fetch_rate_from_sheet(resp), st)

\* choose_kw (bot.py:179-187)
choose_kw_begin(m, st) == Answer("waiting_kw_amount", Reply("prompt_kw"))

\* choose_rub (bot.py:232-239)
choose_rub_begin(m, st) == Answer("waiting_rub_amount", Reply("prompt_rub"))

\* want_k < MIN_K or want_k > MAX_K (bot.py:197, 258)
OutOfRange(x) == Lt(x, IntNum(MIN_K)) \/ Lt(IntNum(MAX_K), x)

\* handle_kw_amount (bot.py:197-208): the range check, the fee lookup f, then the fetch
handle_kw_amount_checked(want_k, f, st) ==
    IF OutOfRange(want_k)
    THEN Step("answer", st, [Reply("outside_range") EXCEPT !.gets = fmt_money(want_k)],
              want_k, NoFee, FALSE)
    ELSE IF f.none THEN Step("answer", st, Reply("no_bracket"), want_k, f, TRUE)
    ELSE Step("fetch", st, NoReply, want_k, f, TRUE)

\* handle_kw_amount (bot.py:191-195): p the outcome of parse_amount
handle_kw_amount_parsed(p, st) ==
    IF p.err = "ValueError" THEN Answer(st, Reply("enter_number"))
    ELSE IF p.err # "none" THEN Step("raised", st, NoReply, NaN, NoFee, FALSE)
    ELSE handle_kw_amount_checked(p.v, fee_for_kw(p.v), st)

\* handle_kw_amount (bot.py:189-208), up to the fetch
handle_kw_amount_begin(m, st) == handle_kw_amount_parsed(parse_amount(m), st)

\* a total that leaves the fee out
total_k_without_fee(want_k, fee_k) == want_k

\* total_k = want_k + fee_k (bot.py:213)
total_k_of(want_k, fee_k) == Add(want_k, IntNum(fee_k))

\* rub_to_send = total_k * rub_per_zmw (bot.py:214)
rub_to_send_of(total_k, rub_per_zmw) == Mul(total_k, rub_per_zmw)

\* the quote of handle_kw_amount (bot.py:217-228)
kw_quote(want_k, fee, total_k, rub_per_zmw) ==
    [Reply("quote_kw") EXCEPT
        !.gets = fmt_money(want_k), !.fee = fmt_money(IntNum(fee.fee)),
        !.lo = fee.lo, !.hi = fee.hi, !.total = fmt_money(total_k),
        !.rate = FmtFixed(rub_per_zmw, 4),
        !.send = fmt_money(rub_to_send_of(total_k, rub_per_zmw))]

\* a kw flow that leaves the form when the rate fetch fails
handle_kw_amount_after_clear_on_error(t, f, st) ==
    IF ~f.ok THEN Step("answer", "None", Reply("rate_error"), t.want, t.fee, t.looked)
    ELSE Step("answer", "None",
              kw_quote(t.want, t.fee, total_k_of(t.want, t.fee.fee), f.rate),
              t.want, t.fee, t.looked)

\* handle_kw_amount (bot.py:209-230), f the outcome of the fetch
handle_kw_amount_after(t, f, st) ==
    IF ~f.ok THEN Step("answer", st, Reply("rate_error"), t.want, t.fee, t.looked)
    ELSE Step("answer", "None",
              kw_quote(t.want, t.fee, total_k_of(t.want, t.fee.fee), f.rate),
              t.want, t.fee, t.looked)

handle_kw_amount_resume(t, resp, st) ==
    handle_kw_amount_after(t, fetch_rate_from_sheet(resp), st)

\* handle_rub_amount (bot.py:243-247): p the outcome of parse_amount
handle_rub_amount_parsed(p, st) ==
    IF p.err = "ValueError" THEN Answer(st, Reply("enter_number"))
    ELSE IF p.err # "none" THEN Step("raised", st, NoReply, NaN, NoFee, FALSE)
    ELSE Step("fetch", st, NoReply, p.v, NoFee, FALSE)

\* handle_rub_amount (bot.py:241-250), up to the fetch
handle_rub_amount_begin(m, st) == handle_rub_amount_parsed(parse_amount(m), st)

\* a base that multiplies by the rate
base_k_times_rate(want_rub, rub_per_zmw) == Mul(want_rub, rub_per_zmw)

\* base_k = want_rub * zmw_per_rub (bot.py:255-256)
base_k_of(want_rub, rub_per_zmw) == Mul(want_rub, zmw_per_rub_of(rub_per_zmw))

\* the quote of handle_rub_amount (bot.py:269-283)
rub_quote(want_rub, base_k, fee, rub_per_zmw) ==
    [Reply("quote_rub") EXCEPT
        !.gets = fmt_money(want_rub), !.base = fmt_money(base_k),
        !.fee = fmt_money(IntNum(fee.fee)), !.lo = fee.lo, !.hi = fee.hi,
        !.send = fmt_money(Add(base_k, IntNum(fee.fee))),
        !.rate = FmtFixed(rub_per_zmw, 4)]

\* handle_rub_amount (bot.py:265-285): the fee lookup and the quote
handle_rub_amount_fee(want_rub, base_k, fee, rub_per_zmw, st) ==
    IF fee.none THEN Step("answer", st, Reply("no_bracket"), want_rub, fee, TRUE)
    ELSE Step("answer", "None", rub_quote(want_rub, base_k, fee, rub_per_zmw),
              want_rub, fee, TRUE)

\* handle_rub_amount (bot.py:258-263): the range check on base_k
handle_rub_amount_checked(want_rub, base_k, rub_per_zmw, st) ==
    IF OutOfRange(base_k)
    THEN Step("answer", st, [Reply("outside_range") EXCEPT !.base = fmt_money(base_k)],
              want_rub, NoFee, FALSE)
    ELSE handle_rub_amount_fee(want_rub, base_k, fee_for_kw(base_k), rub_per_zmw, st)

\* handle_rub_amount (bot.py:251-285), f the outcome of the fetch
handle_rub_amount_after(t, f, st) ==
    IF ~f.ok THEN Step("answer", st, Reply("rate_error"), t.want, NoFee, FALSE)
    ELSE handle_rub_amount_checked(t.want, base_k_of(t.want, f.rate), f.rate, st)

handle_rub_amount_resume(t, resp, st) ==
    handle_rub_amount_after(t, fetch_rate_from_sheet(resp), st)

\* cmd_debug_link (bot.py:296-298)
cmd_debug_link_begin(m, st, csv) == Answer(st, [Reply("debug_link") EXCEPT !.url = csv])

\* no handler accepts the message: the update is dropped
no_handler_begin(m, st) == Step("done", st, NoReply, NaN, NoFee, FALSE)

\* the handler h from its start to its first network await
Begin(h, m, st, csv) ==
    CASE h = "start_cmd" -> start_cmd_begin(m, st)
      [] h \in {"fees", "cmd_fees"} -> fees_begin(m, st)
      [] h \in {"google_rate", "cmd_rate"} -> google_rate_begin(m, st)
      [] h = "choose_kw" -> choose_kw_begin(m, st)
      [] h = "handle_kw_amount" -> handle_kw_amount_begin(m, st)
      [] h = "choose_rub" -> choose_rub_begin(m, st)
      [] h = "handle_rub_amount" -> handle_rub_amount_begin(m, st)
      [] h = "cmd_debug_link" -> cmd_debug_link_begin(m, st, csv)
      [] OTHER -> no_handler_begin(m, st)

\* the handler h, suspended as t, from the fetch's return to the reply's send
Resume(h, t, resp, st) ==
    CASE h \in {"google_rate", "cmd_rate"} -> google_rate_resume(t, resp, st)
      [] h = "handle_kw_amount" -> handle_kw_amount_resume(t, resp, st)
      [] OTHER -> handle_rub_amount_resume(t, resp, st)

\* the whole handler after its first step b, run without interleaving
RunFrom(h, b, resp) ==
    IF b.pc = "fetch"
    THEN [step |-> Resume(h, b, resp, b.state), fetched |-> TRUE]
    ELSE [step |-> b, fetched |-> FALSE]

Run(h, m, st, resp, csv) == RunFrom(h, Begin(h, m, st, csv), resp)

(***************************************************************************)
(* The inputs the model draws from.                                        *)
(***************************************************************************)
\* how far below 0 and above MAX_K the arguments of fee_for_kw range
AmtMargin == 2

\* the arguments of fee_for_kw: every half Kwacha of the range, and the non-finite floats
FeeArgs ==
    {Fin(h, 2) : h \in (-2 * AmtMargin)..(2 * (MAX_K + AmtMargin))} \cup {NaN, PosInf, NegInf}

AmountTexts == {
    <<"6", "5", "0", "0">>,
    <<"6", " ", "5", "0", "0">>,
    <<"6", "5", "0", "0", ",", "5">>,
    <<"1", "0", "0", "0", "0", ".", "5">>,
    <<"1", ",", "0", "0", "0", ".", "5">>,
    <<"4", "5", "0">>,
    <<"4", "5", "1">>,
    <<"9", "9">>,
    <<"1", "0", "0">>,
    <<"4", "0", "0", "0", "0">>,
    <<"4", "0", "0", "0", "1">>,
    <<"1", "0", "0", "0", "0", "0">>,
    <<"1", "0", "3", "5", "0">>,
    <<"-", "1", "0", "0">>,
    <<"0">>,
    <<"a", "b", "c">>,
    <<"n", "a", "n">>,
    <<"i", "n", "f">> }

MenuTexts == {LABEL_RATE, LABEL_KW, LABEL_RUB, LABEL_FEES}
CommandTexts == {CMD_START, CMD_RATE, CMD_FEES, CMD_DEBUG_LINK}

Messages == {Text(t) : t \in AmountTexts \cup MenuTexts \cup CommandTexts} \cup {NoText}

Responses == {
    HttpError,
    Body(<<"2", "2", ".", "5">>),
    Body(<<" ", "2", "2", ",", "5", "\n">>),
    Body(<<"<", "H", "T", "M", "L", ">", "2", "2", ".", "5">>),
    Body(<<"n", "/", "a">>),
    Body(<<"1">>),
    Body(<<"0">>) }

\* the longest query string of a sheet URL
MaxQuery == 2

QueryPairs == {
    <<"gid", "5">>, <<"gid", "1%2B2">>, <<"output", "csv">>, <<"output", "html">>,
    <<"format", "csv">>, <<"range", "B2">> }

RECURSIVE Queries(_)
Queries(n) ==
    IF n = 0 THEN {<<>>}
    ELSE Queries(n - 1) \cup {Append(q, kv) : q \in {x \in Queries(n - 1) : Len(x) = n - 1},
                                            kv \in QueryPairs}

Paths == {
    <<"spreadsheets", "d", "e", "PUB1", "pubhtml">>,
    <<"spreadsheets", "d", "e", "PUB1", "pub">>,
    <<"spreadsheets", "d", "e", "PUB1">>,
    <<"spreadsheets", "d", "SHEET1", "edit">>,
    <<"spreadsheets", "d", "SHEET1", "export">>,
    <<"spreadsheets", "d", "SHEET1">>,
    <<"u", "0", "spreadsheets", "d", "SHEET1", "edit">>,
    <<"rates", "rate.csv">> }

Urls ==
    {Url(sc, h, p, q, f) : sc \in {"https", "http"},
                           h \in {"docs.google.com", "example.org"},
                           p \in Paths, q \in Queries(MaxQuery), f \in {"", "gid=5", "output=csv"}}

\* the sheet URL of the chat specifications
DefaultSheetUrl ==
    Url("https", "docs.google.com", <<"spreadsheets", "d", "e", "PUB1", "pubhtml">>, <<>>, "")

(***************************************************************************)
(* SpecFee: fee_for_kw applied to one argument.                            *)
(***************************************************************************)
NoLast ==
    [msg |-> NoText, pre |-> "None", handler |-> "none", pc |-> "none", replies |-> <<>>,
     want |-> NaN, fee |-> NoFee, looked |-> FALSE, resp |-> NoResp]

ChatIdle ==
    /\ state = "None"
    /\ last = NoLast
    /\ arrived = <<>>
    /\ tasks = <<>>
    /\ state0 = "None"

InitFee ==
    /\ fee_arg \in FeeArgs
    /\ fee_result = [done |-> FALSE, r |-> NoFee]
    /\ SHEET_URL = DefaultSheetUrl
    /\ CSV_URL = derive_csv_url(SHEET_URL)
    /\ ChatIdle

FeeFor ==
    /\ ~fee_result.done
    /\ fee_result' = [done |-> TRUE, r |-> fee_for_kw(fee_arg)]
    /\ UNCHANGED <<fee_arg, urlVars, chatVars, concVars>>

NextFee == FeeFor

SpecFee == InitFee /\ [][NextFee]_vars

(***************************************************************************)
(* SpecUrl: CSV_URL = derive_csv_url(SHEET_URL) at start-up (bot.py:86).   *)
(***************************************************************************)
InitUrl ==
    /\ SHEET_URL \in Urls
    /\ CSV_URL = NoUrl
    /\ fee_arg = NaN
    /\ fee_result = [done |-> FALSE, r |-> NoFee]
    /\ ChatIdle

DeriveCsvUrl ==
    /\ CSV_URL = NoUrl
    /\ CSV_URL' = derive_csv_url(SHEET_URL)
    /\ UNCHANGED <<SHEET_URL, feeVars, chatVars, concVars>>

NextUrl == DeriveCsvUrl

SpecUrl == InitUrl /\ [][NextUrl]_vars

(***************************************************************************)
(* Spec: one chat, each message handled to completion before the next.     *)
(***************************************************************************)
Init ==
    /\ state = "None"
    /\ last = NoLast
    /\ SHEET_URL = DefaultSheetUrl
    /\ CSV_URL = derive_csv_url(SHEET_URL)
    /\ fee_arg = NaN
    /\ fee_result = [done |-> FALSE, r |-> NoFee]
    /\ arrived = <<>>
    /\ tasks = <<>>
    /\ state0 = "None"

\* what is recorded of a handled message
Handled(m, pre, h, r, resp) ==
    [msg |-> m, pre |-> pre, handler |-> h, pc |-> r.step.pc,
     replies |-> IF r.step.pc = "answer" THEN <<r.step.reply>> ELSE <<>>,
     want |-> r.step.want, fee |-> r.step.fee, looked |-> r.step.looked,
     resp |-> IF r.fetched THEN resp ELSE NoResp]

Finish(m, h, r, resp) ==
    /\ state' = r.step.state
    /\ last' = Handled(m, state, h, r, resp)

\* One action per handler: the dispatcher hands it a message it accepts and it runs to
\* its end; resp is what the rate fetch returns.
\* start_cmd (bot.py:137-148)
start_cmd ==
    \E m \in Messages :
        /\ Dispatch(m, state) = "start_cmd"
        /\ Finish(m, "start_cmd", Run("start_cmd", m, state, NoResp, CSV_URL), NoResp)
        /\ UNCHANGED <<feeVars, urlVars, concVars>>

\* fees (bot.py:150-156)
fees ==
    \E m \in Messages :
        /\ Dispatch(m, state) = "fees"
        /\ Finish(m, "fees", Run("fees", m, state, NoResp, CSV_URL), NoResp)
        /\ UNCHANGED <<feeVars, urlVars, concVars>>

\* google_rate (bot.py:158-177)
google_rate ==
    \E m \in Messages, resp \in Responses :
        /\ Dispatch(m, state) = "google_rate"
        /\ Finish(m, "google_rate", Run("google_rate", m, state, resp, CSV_URL), resp)
        /\ UNCHANGED <<feeVars, urlVars, concVars>>

\* choose_kw (bot.py:179-187)
choose_kw ==
    \E m \in Messages :
        /\ Dispatch(m, state) = "choose_kw"
        /\ Finish(m, "choose_kw", Run("choose_kw", m, state, NoResp, CSV_URL), NoResp)
        /\ UNCHANGED <<feeVars, urlVars, concVars>>

\* handle_kw_amount (bot.py:189-230)
handle_kw_amount ==
    \E m \in Messages, resp \in Responses :
        /\ Dispatch(m, state) = "handle_kw_amount"
        /\ Finish(m, "handle_kw_amount", Run("handle_kw_amount", m, state, resp, CSV_URL), resp)
        /\ UNCHANGED <<feeVars, urlVars, concVars>>

\* choose_rub (bot.py:232-239)
choose_rub ==
    \E m \in Messages :
        /\ Dispatch(m, state) = "choose_rub"
        /\ Finish(m, "choose_rub", Run("choose_rub", m, state, NoResp, CSV_URL), NoResp)
        /\ UNCHANGED <<feeVars, urlVars, concVars>>

\* handle_rub_amount (bot.py:241-285)
handle_rub_amount ==
    \E m \in Messages, resp \in Responses :
        /\ Dispatch(m, state) = "handle_rub_amount"
        /\ Finish(m, "handle_rub_amount", Run("handle_rub_amount", m, state, resp, CSV_URL), resp)
        /\ UNCHANGED <<feeVars, urlVars, concVars>>

\* cmd_rate (bot.py:288-290)
cmd_rate ==
    \E m \in Messages, resp \in Responses :
        /\ Dispatch(m, state) = "cmd_rate"
        /\ Finish(m, "cmd_rate", Run("cmd_rate", m, state, resp, CSV_URL), resp)
        /\ UNCHANGED <<feeVars, urlVars, concVars>>

\* cmd_fees (bot.py:292-294)
cmd_fees ==
    \E m \in Messages :
        /\ Dispatch(m, state) = "cmd_fees"
        /\ Finish(m, "cmd_fees", Run("cmd_fees", m, state, NoResp, CSV_URL), NoResp)
        /\ UNCHANGED <<feeVars, urlVars, concVars>>

\* cmd_debug_link (bot.py:296-298)
cmd_debug_link ==
    \E m \in Messages :
        /\ Dispatch(m, state) = "cmd_debug_link"
        /\ Finish(m, "cmd_debug_link", Run("cmd_debug_link", m, state, NoResp, CSV_URL), NoResp)
        /\ UNCHANGED <<feeVars, urlVars, concVars>>

\* an update no handler accepts
no_handler ==
    \E m \in Messages :
        /\ Dispatch(m, state) = "none"
        /\ Finish(m, "none", Run("none", m, state, NoResp, CSV_URL), NoResp)
        /\ UNCHANGED <<feeVars, urlVars, concVars>>

Next ==
    \/ start_cmd
    \/ fees
    \/ google_rate
    \/ choose_kw
    \/ handle_kw_amount
    \/ choose_rub
    \/ handle_rub_amount
    \/ cmd_rate
    \/ cmd_fees
    \/ cmd_debug_link
    \/ no_handler

Spec == Init /\ [][Next]_vars

(***************************************************************************)
(* What the claims are stated with, independently of the definitions above.*)
(***************************************************************************)
\* the brackets whose inclusive bounds hold W
BracketsOf(W) ==
    {i \in 1..Len(FEE_BRACKETS) :
        Le(IntNum(FEE_BRACKETS[i][1]), W) /\ Le(W, IntNum(FEE_BRACKETS[i][2]))}

Covered(W) == BracketsOf(W) # {}

TheBracket(W) == FEE_BRACKETS[CHOOSE i \in BracketsOf(W) : TRUE]

InGlobalRange(W) == Le(IntNum(MIN_K), W) /\ Le(W, IntNum(MAX_K))

\* the result fee_for_kw gave for fee_arg is the bracket b
IsBracket(r, b) == ~r.none /\ r.fee = b[3] /\ r.lo = b[1] /\ r.hi = b[2]

\* C1 as stated: every W of [MIN_K, MAX_K] gets a fee, and lies within the bounds
\* returned with it.
C1_Original ==
    (fee_result.done /\ InGlobalRange(fee_arg)) =>
        /\ ~fee_result.r.none
        /\ Le(IntNum(fee_result.r.lo), fee_arg) /\ Le(fee_arg, IntNum(fee_result.r.hi))

\* C1, amended: for W in [MIN_K, MAX_K], fee_for_kw returns a fee exactly when some
\* bracket holds W, and W then lies within the returned bounds; a W of the range that
\* lies in a gap between brackets gets the no-match signal.
C1_Amended ==
    (fee_result.done /\ InGlobalRange(fee_arg)) =>
        IF Covered(fee_arg)
        THEN /\ ~fee_result.r.none
             /\ Le(IntNum(fee_result.r.lo), fee_arg) /\ Le(fee_arg, IntNum(fee_result.r.hi))
        ELSE fee_result.r = NoFee

C1_Witness ==
    /\ fee_result.done
    /\ fee_arg = IntNum(100)
    /\ IsBracket(fee_result.r, <<100, 450, 25>>)

\* C2: fee_for_kw signals no match exactly when no bracket holds W (below MIN_K, above
\* MAX_K, in a gap); otherwise it returns the fee and bounds of the only bracket that
\* holds W; the brackets ascend and are pairwise disjoint.
C2_FeeLookup ==
    fee_result.done =>
        /\ fee_result.r.none <=> ~Covered(fee_arg)
        /\ fee_result.r.none => fee_result.r = NoFee
        /\ Lt(fee_arg, IntNum(MIN_K)) => fee_result.r.none
        /\ Lt(IntNum(MAX_K), fee_arg) => fee_result.r.none
        /\ Covered(fee_arg) =>
              /\ Cardinality(BracketsOf(fee_arg)) = 1
              /\ IsBracket(fee_result.r, TheBracket(fee_arg))
        /\ fee_arg = IntNum(451) => fee_result.r.none
        /\ fee_arg = IntNum(99) => fee_result.r.none
        /\ fee_arg = IntNum(450) => IsBracket(fee_result.r, <<100, 450, 25>>)
        /\ fee_arg = IntNum(6500) => IsBracket(fee_result.r, <<6500, 10000, 325>>)
        /\ \A i \in 1..Len(FEE_BRACKETS) :
              /\ FEE_BRACKETS[i][1] <= FEE_BRACKETS[i][2]
              /\ \A j \in (i + 1)..Len(FEE_BRACKETS) : FEE_BRACKETS[i][2] < FEE_BRACKETS[j][1]

C2_Witness ==
    /\ fee_result.done
    /\ fee_arg = IntNum(6500)
    /\ IsBracket(fee_result.r, <<6500, 10000, 325>>)

\* a CSV export URL: output=csv, or an /export path with format=csv
IsCsvExport(url) ==
    \/ \E i \in 1..Len(url.query) : url.query[i] = <<"output", "csv">>
    \/ /\ url.path # <<>>
       /\ url.path[Len(url.path)] = "export"
       /\ \E i \in 1..Len(url.query) : url.query[i] = <<"format", "csv">>

\* C9 as stated: derive_csv_url is idempotent, and a URL that already is a CSV export
\* URL is returned unchanged.
C9_Claim ==
    CSV_URL # NoUrl =>
        /\ derive_csv_url(CSV_URL) = CSV_URL
        /\ IsCsvExport(SHEET_URL) => CSV_URL = SHEET_URL

\* C9, its first half alone: deriving twice gives what deriving once gives (violated by
\* a share link whose gid is percent-encoded)
C9_Idempotent == CSV_URL # NoUrl => derive_csv_url(CSV_URL) = CSV_URL

(***************************************************************************)
(* The chat claims, on the last message handled (Spec).                    *)
(***************************************************************************)
AmountHandlers == {"handle_kw_amount", "handle_rub_amount"}

AwaitingStates == {"waiting_kw_amount", "waiting_rub_amount"}

\* the form a handler serves
FormOf(h) == IF h = "handle_kw_amount" THEN "waiting_kw_amount" ELSE "waiting_rub_amount"

\* the reply to the last message, NoReply if there was none
LastReply == IF last.replies = <<>> THEN NoReply ELSE last.replies[1]

LastIsQuote == LastReply.kind \in QuoteKinds

\* the amount and the rate of the last message, as the claims name them
ParsedAmount == parse_amount(last.msg)
FetchedRate == fetch_rate_from_sheet(last.resp)

TEXT_6500 == <<"6", "5", "0", "0">>
TEXT_100000 == <<"1", "0", "0", "0", "0", "0">>
BODY_22_5 == Body(<<"2", "2", ".", "5">>)

\* the fee of the bracket that holds W
FeeOf(W) == TheBracket(W)[3]

BaseKwacha == Mul(ParsedAmount.v, Recip(FetchedRate.rate))

RubCase ==
    /\ last.handler = "handle_rub_amount"
    /\ ParsedAmount.err = "none"
    /\ FetchedRate.ok

\* C4 as stated: in the Ruble flow, B = R / r; B outside [MIN_K, MAX_K] is rejected
\* with no quote; otherwise the fee is resolved on B and the quote shows B + F.
C4_Original ==
    (RubCase /\ Truthy(FetchedRate.rate)) =>
        IF InGlobalRange(BaseKwacha)
        THEN /\ LastReply.kind = "quote_rub"
             /\ ~last.fee.none
             /\ LastReply.send = fmt_money(Add(BaseKwacha, IntNum(last.fee.fee)))
        ELSE ~LastIsQuote

\* B as the code computes it: R * (1 / r), with 1 / r taken as inf when r = 0
BaseAsComputed ==
    IF Truthy(FetchedRate.rate) THEN BaseKwacha ELSE Mul(ParsedAmount.v, PosInf)

\* C4, amended: B = R * (1 / r) (1 / r = inf for r = 0); B below MIN_K or above MAX_K
\* is rejected with no quote; a B that no bracket holds (a gap, or not a number) gets
\* "No matching fee bracket" and no quote; otherwise the quote shows B, the fee F of
\* B's bracket and B + F (100000 at 22.5: 4444.44, 150 of 3500-6400, 4594.44).
C4_Amended ==
    RubCase =>
        /\ OutOfRange(BaseAsComputed) =>
              LastReply.kind = "outside_range" /\ ~last.looked
        /\ (~OutOfRange(BaseAsComputed) /\ ~Covered(BaseAsComputed)) =>
              LastReply.kind = "no_bracket"
        /\ Covered(BaseAsComputed) =>
              /\ LastReply.kind = "quote_rub"
              /\ LastReply.gets = fmt_money(ParsedAmount.v)
              /\ LastReply.base = fmt_money(BaseAsComputed)
              /\ LastReply.fee = fmt_money(IntNum(FeeOf(BaseAsComputed)))
              /\ LastReply.lo = TheBracket(BaseAsComputed)[1]
              /\ LastReply.hi = TheBracket(BaseAsComputed)[2]
              /\ LastReply.send =
                    fmt_money(Add(BaseAsComputed, IntNum(FeeOf(BaseAsComputed))))
        /\ (last.msg = Text(TEXT_100000) /\ last.resp = BODY_22_5) =>
              /\ LastReply.kind = "quote_rub"
              /\ LastReply.base = Money(4444, 44)
              /\ LastReply.fee = Money(150, 0)
              /\ LastReply.lo = 3500 /\ LastReply.hi = 6400
              /\ LastReply.send = Money(4594, 44)

C4_Witness ==
    /\ last.handler = "handle_rub_amount"
    /\ last.msg = Text(TEXT_100000)
    /\ last.resp = BODY_22_5
    /\ LastReply.kind = "quote_rub"
    /\ LastReply.send = Money(4594, 44)

\* C5: after a completed quote, and after /start, Fees or Google rate (whether or not
\* the fetch succeeds), the chat's state is Idle, whatever it was before.
C5_ResetToIdle ==
    /\ LastIsQuote => state = "None"
    /\ (\/ IsCommand(last.msg, CMD_START)
        \/ IsLabel(last.msg, LABEL_FEES)
        \/ IsLabel(last.msg, LABEL_RATE)) =>
           /\ last.handler \in {"start_cmd", "fees", "google_rate"}
           /\ state = "None"

C5_Witness ==
    /\ IsLabel(last.msg, LABEL_RATE)
    /\ last.pre = "waiting_rub_amount"
    /\ ~FetchedRate.ok
    /\ Len(last.replies) = 1
    /\ state = "None"

\* C6 as stated: in every state a menu selection or its slash command is handled as
\* that menu action, never as amount input: Receive Kwacha and Receive Rubles open
\* their forms, /rate acts as Google rate and /fees as Fees.
C6_Claim ==
    /\ IsLabel(last.msg, LABEL_KW) =>
          last.handler = "choose_kw" /\ state = "waiting_kw_amount"
    /\ IsLabel(last.msg, LABEL_RUB) =>
          last.handler = "choose_rub" /\ state = "waiting_rub_amount"
    /\ (IsCommand(last.msg, CMD_RATE) \/ IsLabel(last.msg, LABEL_RATE)) =>
          /\ last.handler \in {"cmd_rate", "google_rate"}
          /\ LastReply.kind \in {"rate", "rate_error_retry"}
          /\ state = "None"
    /\ (IsCommand(last.msg, CMD_FEES) \/ IsLabel(last.msg, LABEL_FEES)) =>
          /\ last.handler \in {"cmd_fees", "fees"}
          /\ LastReply.kind = "fee_table"
          /\ state = "None"

\* the failure of the last amount message: "none" if it was quoted
FailureOfLast ==
    IF ParsedAmount.err = "ValueError" THEN "InvalidAmount"
    ELSE IF last.handler = "handle_kw_amount"
    THEN (IF OutOfRange(ParsedAmount.v) THEN "InvalidAmount"
          ELSE IF ~Covered(ParsedAmount.v) THEN "NoBracketMatch"
          ELSE IF ~FetchedRate.ok THEN "RateUnavailable"
          ELSE "none")
    ELSE (IF ~FetchedRate.ok THEN "RateUnavailable"
          ELSE IF OutOfRange(BaseAsComputed) THEN "InvalidAmount"
          ELSE IF ~Covered(BaseAsComputed) THEN "NoBracketMatch"
          ELSE "none")

\* C7: in both amount flows a text message that fails (InvalidAmount, NoBracketMatch,
\* RateUnavailable) gets one failure message and no quote, and the chat stays in the
\* same Awaiting state, so its next message is again taken as the amount.
C7_FailureKeepsForm ==
    (last.handler \in AmountHandlers /\ last.msg.has_text /\ FailureOfLast # "none") =>
        /\ Len(last.replies) = 1
        /\ LastReply.kind \in FailureKinds
        /\ FailureOfLast = "RateUnavailable" => LastReply.kind = "rate_error"
        /\ FailureOfLast = "NoBracketMatch" => LastReply.kind = "no_bracket"
        /\ FailureOfLast = "InvalidAmount" => LastReply.kind \in {"enter_number", "outside_range"}
        /\ LastReply.total = Blank /\ LastReply.send = Blank /\ LastReply.fee = Blank
        /\ state = last.pre
        /\ state = FormOf(last.handler)
        /\ \A t \in AmountTexts : Dispatch(Text(t), state) = last.handler

C7_Witness ==
    /\ last.handler = "handle_kw_amount"
    /\ last.msg = Text(TEXT_6500)
    /\ FetchedRate.why = "html"
    /\ LastReply.kind = "rate_error"
    /\ state = "waiting_kw_amount"

\* C8 as stated: every message delivered to a chat in an Awaiting state gets exactly
\* one reply, whatever it carries; no handler run ends without one.
C8_Claim ==
    last.pre \in AwaitingStates => Len(last.replies) = 1 /\ last.pc = "answer"

(***************************************************************************)
(* SpecConc: the updates of one chat handled as concurrent tasks, as        *)
(* dp.start_polling(bot) (bot.py:301-302) runs them: a task starts when its *)
(* update arrives and runs to its first network await; the tasks suspended  *)
(* in the rate fetch or in m.answer resume in any order.  Nothing in bot.py *)
(* orders or locks the tasks of a chat.                                     *)
(***************************************************************************)
\* the number of messages delivered to the chat
MaxMsgs == 2

ConcMessages ==
    {Text(TEXT_6500), Text(TEXT_100000), Text(<<"a", "b", "c">>), Text(LABEL_KW),
     Text(LABEL_RUB), Text(LABEL_RATE), Text(CMD_START), NoText}

ConcResponses == {HttpError, BODY_22_5}

InitConc ==
    /\ state0 \in FormStates
    /\ state = state0
    /\ arrived = <<>>
    /\ tasks = <<>>
    /\ last = NoLast
    /\ SHEET_URL = DefaultSheetUrl
    /\ CSV_URL = derive_csv_url(SHEET_URL)
    /\ fee_arg = NaN
    /\ fee_result = [done |-> FALSE, r |-> NoFee]

\* the task of message m, handled by h, after its first step b
Started(m, h, b) ==
    /\ state' = b.state
    /\ tasks' = Append(tasks, [msg |-> m, handler |-> h, pc |-> b.pc, b |-> b, resp |-> NoResp])
    /\ arrived' = Append(arrived, m)

\* an update arrives: the dispatcher picks the handler by the state as it is now, and
\* the handler runs to its first network await
Deliver ==
    \E m \in ConcMessages :
        /\ Len(arrived) < MaxMsgs
        /\ Started(m, Dispatch(m, state), Begin(Dispatch(m, state), m, state, CSV_URL))
        /\ UNCHANGED <<feeVars, urlVars, last, state0>>

\* task i after the fetch returned resp and the handler ran on to r
Resumed(i, resp, r) ==
    /\ state' = r.state
    /\ tasks' = [tasks EXCEPT ![i] = [@ EXCEPT !.pc = r.pc, !.b = r, !.resp = resp]]

\* the rate fetch of a suspended task returns; the handler runs on to m.answer
FetchReturns ==
    \E i \in 1..Len(tasks), resp \in ConcResponses :
        /\ tasks[i].pc = "fetch"
        /\ Resumed(i, resp, Resume(tasks[i].handler, tasks[i].b, resp, state))
        /\ UNCHANGED <<feeVars, urlVars, last, state0, arrived>>

\* the reply of a task is sent and its handler returns
AnswerSent ==
    \E i \in 1..Len(tasks) :
        /\ tasks[i].pc = "answer"
        /\ tasks' = [tasks EXCEPT ![i] = [@ EXCEPT !.pc = "done"]]
        /\ UNCHANGED <<feeVars, urlVars, last, state0, arrived, state>>

NextConc ==
    \/ Deliver
    \/ FetchReturns
    \/ AnswerSent

SpecConc == InitConc /\ [][NextConc]_vars

\* every delivered message's handler has finished
AllDone == \A i \in 1..Len(tasks) : tasks[i].pc \in {"done", "raised"}

\* the rate fetches message i can get when the messages are handled one by one: the one
\* its task got, any if its task made none
SeqResponses(i) == IF tasks[i].resp # NoResp THEN {tasks[i].resp} ELSE ConcResponses

\* the states the chat can end in when messages i.. are handled one after the other
RECURSIVE SeqStates(_, _)
SeqStates(st, i) ==
    IF i > Len(arrived) THEN {st}
    ELSE UNION {SeqStates(Run(Dispatch(arrived[i], st), arrived[i], st, resp, CSV_URL).step.state,
                          i + 1) : resp \in SeqResponses(i)}

\* C10 as stated: once the interleaved handlers of a chat's messages have finished, the
\* chat's state is the one that handling them one after the other in arrival order
\* gives; after an amount message and a Receive Kwacha selection it is
\* AwaitingKwachaAmount.
C10_Claim ==
    AllDone =>
        /\ state \in SeqStates(state0, 1)
        /\ (/\ Len(arrived) = 2
            /\ arrived[1] \in {Text(TEXT_6500), Text(TEXT_100000)}
            /\ arrived[2] = Text(LABEL_KW)) => state = "waiting_kw_amount"

====
